---- MODULE Spec2Model ----
(***************************************************************************)
(* State-broadcast core of src/wait_time_display/app.py: the five display  *)
(* globals, the listener set, notify(), the five control handlers and the  *)
(* /stream generator.                                                      *)
(*                                                                         *)
(* Scheduling.  The program runs on one asyncio event loop.  A coroutine   *)
(* keeps the loop until it awaits something that is not ready.  Every      *)
(* listener queue is asyncio.Queue() with no maxsize (line 277), so        *)
(* "await q.put(msg)" (line 77) never waits: a control handler runs from   *)
(* its first statement to its return in one step of the loop.  The stream  *)
(* generator is suspended at each yield and at the wait_for of line 291;   *)
(* every action of a session below runs from one suspension to the next.   *)
(*                                                                         *)
(* Strings are tuples of one-character strings, so that strip(), lower()   *)
(* and the f-string of _payload() are computed, not assumed.               *)
(***************************************************************************)
EXTENDS Integers, Sequences, FiniteSets, TLC

\* ---------------------------------------------------------------- bounds
MaxSessions == 2
MaxCommits == 2
MaxHeartbeats == 1

Sessions == 1..MaxSessions

\* -------------------------------------------------------------- strings
Digits == <<"0", "1", "2", "3", "4", "5", "6", "7", "8", "9">>
UpperCase == <<"A","B","C","D","E","F","G","H","I","J","K","L","M",
               "N","O","P","Q","R","S","T","U","V","W","X","Y","Z">>
LowerCase == <<"a","b","c","d","e","f","g","h","i","j","k","l","m",
               "n","o","p","q","r","s","t","u","v","w","x","y","z">>
Whitespace == {" ", "\t", "\n", "\r"}

\* the value of an absent form field (Form(None))
None == <<"<None>">>

RECURSIVE LStrip(_)
LStrip(s) ==
  IF s # <<>> /\ Head(s) \in Whitespace THEN LStrip(Tail(s)) ELSE s

RECURSIVE RStrip(_)
RStrip(s) ==
  IF s # <<>> /\ s[Len(s)] \in Whitespace
  THEN RStrip(SubSeq(s, 1, Len(s) - 1)) ELSE s

\* only the leading whitespace is removed
Strip_left(s) == LStrip(s)

\* str.strip()
Strip(s) == RStrip(LStrip(s))

LowerChar(c) ==
  IF \E i \in 1..26 : UpperCase[i] = c
  THEN LowerCase[CHOOSE i \in 1..26 : UpperCase[i] = c]
  ELSE c

\* the case is kept
Lower_kept(s) == s

\* str.lower()
Lower(s) == [i \in 1..Len(s) |-> LowerChar(s[i])]

\* "value or ''": None and the empty string are falsy
OrEmpty(v) == IF v = None \/ v = <<>> THEN <<>> ELSE v

\* bool(enabled): None and '' are falsy, every other string is truthy
Bool(v) == ~(v = None \/ v = <<>>)

\* str(n) of an integer, as the f-string interpolates it
RECURSIVE IntStr(_)
IntStr(n) ==
  IF n < 0 THEN <<"-">> \o IntStr(0 - n)
  ELSE IF n < 10 THEN <<Digits[n + 1]>>
  ELSE IntStr(n \div 10) \o <<Digits[(n % 10) + 1]>>

DigitVal(c) == (CHOOSE i \in 1..10 : Digits[i] = c) - 1
IsDigit(c) == \E i \in 1..10 : Digits[i] = c

RECURSIVE NatVal(_)
NatVal(s) ==
  IF s = <<>> THEN 0
  ELSE 10 * NatVal(SubSeq(s, 1, Len(s) - 1)) + DigitVal(s[Len(s)])

IsNatStr(s) == s # <<>> /\ \A i \in 1..Len(s) : IsDigit(s[i])

\* the form field "value: int = Form(...)": the framework hands the handler
\* an int, or answers 422 without calling it
IsIntStr(s) ==
  /\ s # None
  /\ s # <<>>
  /\ IF Head(s) \in {"-", "+"} THEN IsNatStr(Tail(s)) ELSE IsNatStr(s)

ParseInt(s) ==
  IF Head(s) = "-" THEN 0 - NatVal(Tail(s))
  ELSE IF Head(s) = "+" THEN NatVal(Tail(s))
  ELSE NatVal(s)

\* no upper cap: min(10, n) gives n
Min_nocap(a, b) == b
Min(a, b) == IF a < b THEN a ELSE b

\* no lower cap: max(0, n) gives n
Max_nocap(a, b) == b
Max(a, b) == IF a > b THEN a ELSE b

\* ------------------------------------------------------------ constants
HEARTBEAT_TIMEOUT == 20
WAIT_CAP == 10

DEFAULT_WAIT_TIME == 5
DEFAULT_OFFER == <<"u","n"," ","e","x","p","r","e","s","s","o">>
DEFAULT_MODE == <<"t","i","m","e">>
DEFAULT_SHOW_OFFER == TRUE

VALID_MODES == { <<"t","i","m","e">>, <<"l","o","g","o">>, <<"d","u","a","l">> }

RETRY == <<"r","e","t","r","y",":"," ","3","0","0","0","\n","\n">>
HEARTBEAT == <<":"," ","h","e","a","r","t","b","e","a","t","\n","\n">>

\* --------------------------------------------------- request form values
\* the form values of the requests that interleave with stream sessions
WaitForms == { <<"1","5">> }
OfferForms == { <<" ">> }
ModeForms == { <<"L","O","G","O"," ">> }
VisibilityForms == { <<"0">> }
AutoForms == { <<"1">> }

\* the form values of the requests of the control-only specification
ControlWaitForms == { <<"7">>, <<"1","5">>, <<"-","2">>, <<"0">>, <<"1","0">>,
                      <<"1","1">>, <<"a","b","c">>, <<>> }
ControlOfferForms == { None, <<>>, <<" ">>, <<" ","a"," ">>, <<"a"," ","b">> }
ControlModeForms == { <<"T","I","M","E"," ">>, <<"l","o","g","o">>,
                      <<" ","D","u","a","l">>, <<"b","o","g","u","s">>,
                      <<"t","i","m","e","s">>, <<" ">> }
ControlEnabledForms == { None, <<>>, <<"1">>, <<"0">>, <<"o","n">> }

\* ---------------------------------------------------------------- state
VARIABLES
  WAIT_TIME, OFFER, MODE, SHOW_OFFER, AUTO_OFFER,  \* the globals, lines 59-63
  listeners,    \* the set of registered queues, named by their session
  queue,        \* queue[s]: the items of session s's asyncio.Queue
  pc,           \* pc[s]: where the generator of session s is suspended
  timer,        \* timer[s]: time spent in the current wait_for
  emitted,      \* emitted[s]: everything the generator has yielded
  reply,        \* the request served by the latest step and its response
  faulty,       \* sessions whose queue raises on put
  commits,      \* history: state and registry at each successful mutation
  broadcasts,   \* history: the message of each notify() call
  regAt         \* history: Len(commits) when session s registered

state == <<WAIT_TIME, OFFER, MODE, SHOW_OFFER, AUTO_OFFER>>
stream == <<pc, timer, emitted, regAt>>
vars == <<WAIT_TIME, OFFER, MODE, SHOW_OFFER, AUTO_OFFER, listeners, queue,
          pc, timer, emitted, reply, faulty, commits, broadcasts, regAt>>

State == [wait |-> WAIT_TIME, offer |-> OFFER, mode |-> MODE,
          show |-> SHOW_OFFER, auto |-> AUTO_OFFER]

InitialState == [wait |-> DEFAULT_WAIT_TIME, offer |-> DEFAULT_OFFER,
                 mode |-> DEFAULT_MODE, show |-> DEFAULT_SHOW_OFFER,
                 auto |-> FALSE]

\* f"data: {WAIT_TIME}|{OFFER}|{MODE}|{1 if SHOW_OFFER else 0}\n\n"
Format(w, o, m, sh) ==
  <<"d","a","t","a",":"," ">> \o IntStr(w) \o <<"|">> \o o \o <<"|">> \o m
    \o <<"|">> \o (IF sh THEN <<"1">> ELSE <<"0">>) \o <<"\n","\n">>

_payload == Format(WAIT_TIME, OFFER, MODE, SHOW_OFFER)

\* ------------------------------------------------------------- registry
\* removing an absent element puts it in
Discard_toggle(ls, s) == IF s \in ls THEN ls \ {s} ELSE ls \cup {s}

\* set.discard: no error when the element is absent
Discard(ls, s) == ls \ {s}

RECURSIVE DiscardAll(_, _)
DiscardAll(ls, dead) ==
  IF dead = <<>> THEN ls ELSE DiscardAll(Discard(ls, Head(dead)), Tail(dead))

\* Queue.put on an unbounded queue: append; a faulty queue raises instead
PutRaises(s) == s \in faulty
Put_lifo(q, msg) == <<msg>> \o q
Put(q, msg) == Append(q, msg)

\* the loop stops after its first listener
Deliver_first(order, qs, dead, msg) ==
  IF order = <<>> THEN [q |-> qs, dead |-> dead]
  ELSE [q |-> [qs EXCEPT ![Head(order)] = Put(qs[Head(order)], msg)],
        dead |-> dead]

\* no try/except around put: the first failure ends the loop
RECURSIVE Deliver_abort(_, _, _, _)
Deliver_abort(order, qs, dead, msg) ==
  IF order = <<>> THEN [q |-> qs, dead |-> dead]
  ELSE LET s == Head(order) IN
       IF PutRaises(s)
       THEN [q |-> qs, dead |-> Append(dead, s)]
       ELSE Deliver_abort(Tail(order), [qs EXCEPT ![s] = Put(qs[s], msg)],
                          dead, msg)

\* the loop of lines 75-79 over list(listeners) in the order `order`
RECURSIVE Deliver(_, _, _, _)
Deliver(order, qs, dead, msg) ==
  IF order = <<>> THEN [q |-> qs, dead |-> dead]
  ELSE LET s == Head(order) IN
       IF PutRaises(s)
       THEN Deliver(Tail(order), qs, Append(dead, s), msg)
       ELSE Deliver(Tail(order), [qs EXCEPT ![s] = Put(qs[s], msg)], dead, msg)

\* the orders in which list(listeners) may enumerate the set
Orders(ls) ==
  { o \in [1..Cardinality(ls) -> ls] : \A i, j \in DOMAIN o : i # j => o[i] # o[j] }

\* lines 74-82: deliver msg to every listener, drop the queues that raised
broadcast(msg) ==
  \E order \in Orders(listeners) :
    LET r == Deliver(order, queue, <<>>, msg) IN
      /\ queue' = r.q
      /\ listeners' = DiscardAll(listeners, r.dead)
      /\ broadcasts' = Append(broadcasts, msg)

\* the payload is formatted from the state before the assignment
notify_stale == broadcast(_payload)

\* notify(), called after the handler has assigned the globals: line 73
\* formats the state as the handler left it
notify == broadcast(_payload')

Commit ==
  /\ Len(commits) < MaxCommits
  /\ commits' = Append(commits, [state |-> State', regs |-> listeners])

\* ------------------------------------------------------ control handlers
\* the latest step served no control request
NoReply == [op |-> "none", value |-> None, resp |-> [status |-> 0]]

Rejected(op, v) ==
  /\ reply' = [op |-> op, value |-> v, resp |-> [status |-> 422]]
  /\ UNCHANGED <<state, listeners, queue, stream, faulty, commits, broadcasts>>

set_wait(value) ==
  IF ~IsIntStr(value) THEN Rejected("set_wait", value)
  ELSE
    /\ WAIT_TIME' = Max(0, Min(WAIT_CAP, ParseInt(value)))
    /\ UNCHANGED <<OFFER, MODE, SHOW_OFFER, AUTO_OFFER>>
    /\ Commit
    /\ notify
    /\ reply' = [op |-> "set_wait", value |-> value,
                resp |-> [status |-> 200, ok |-> TRUE, wait |-> WAIT_TIME']]
    /\ UNCHANGED <<stream, faulty>>

\* notify() is called before the "if OFFER == ''" of line 237
set_offer_torn(value) ==
  /\ OFFER' = Strip(OrEmpty(value))
  /\ SHOW_OFFER' = IF OFFER' = <<>> THEN FALSE ELSE SHOW_OFFER
  /\ UNCHANGED <<WAIT_TIME, MODE, AUTO_OFFER>>
  /\ Commit
  /\ broadcast(Format(WAIT_TIME, OFFER', MODE, SHOW_OFFER))
  /\ reply' = [op |-> "set_offer", value |-> value,
               resp |-> [status |-> 200, ok |-> TRUE, offer |-> OFFER',
                         show |-> SHOW_OFFER']]
  /\ UNCHANGED <<stream, faulty>>

\* a non-empty offer switches the offer back on
set_offer_reshow(value) ==
  /\ OFFER' = Strip(OrEmpty(value))
  /\ SHOW_OFFER' = (OFFER' # <<>>)
  /\ UNCHANGED <<WAIT_TIME, MODE, AUTO_OFFER>>
  /\ Commit
  /\ notify
  /\ reply' = [op |-> "set_offer", value |-> value,
              resp |-> [status |-> 200, ok |-> TRUE, offer |-> OFFER',
                        show |-> SHOW_OFFER']]
  /\ UNCHANGED <<stream, faulty>>

\* lines 232-240
set_offer(value) ==
  /\ OFFER' = Strip(OrEmpty(value))
  /\ SHOW_OFFER' = IF OFFER' = <<>> THEN FALSE ELSE SHOW_OFFER
  /\ UNCHANGED <<WAIT_TIME, MODE, AUTO_OFFER>>
  /\ Commit
  /\ notify
  /\ reply' = [op |-> "set_offer", value |-> value,
              resp |-> [status |-> 200, ok |-> TRUE, offer |-> OFFER',
                        show |-> SHOW_OFFER']]
  /\ UNCHANGED <<stream, faulty>>

offer_visibility(enabled) ==
  /\ SHOW_OFFER' = Bool(enabled)
  /\ UNCHANGED <<WAIT_TIME, OFFER, MODE, AUTO_OFFER>>
  /\ Commit
  /\ notify
  /\ reply' = [op |-> "offer_visibility", value |-> enabled,
              resp |-> [status |-> 200, ok |-> TRUE, show |-> SHOW_OFFER']]
  /\ UNCHANGED <<stream, faulty>>

\* the value is stored without the test of line 259
set_mode_unchecked(value) ==
  /\ MODE' = Lower(Strip(OrEmpty(value)))
  /\ UNCHANGED <<WAIT_TIME, OFFER, SHOW_OFFER, AUTO_OFFER>>
  /\ Commit
  /\ notify
  /\ reply' = [op |-> "set_mode", value |-> value,
               resp |-> [status |-> 200, ok |-> TRUE, mode |-> MODE']]
  /\ UNCHANGED <<stream, faulty>>

set_mode(value) ==
  LET v == Lower(Strip(OrEmpty(value))) IN
  IF v \in VALID_MODES
  THEN /\ MODE' = v
       /\ UNCHANGED <<WAIT_TIME, OFFER, SHOW_OFFER, AUTO_OFFER>>
       /\ Commit
       /\ notify
       /\ reply' = [op |-> "set_mode", value |-> value,
                   resp |-> [status |-> 200, ok |-> TRUE, mode |-> MODE']]
       /\ UNCHANGED <<stream, faulty>>
  ELSE /\ reply' = [op |-> "set_mode", value |-> value,
                   resp |-> [status |-> 200, ok |-> FALSE]]
       /\ UNCHANGED <<state, listeners, queue, stream, faulty, commits,
                      broadcasts>>

\* no broadcast when the payload is the one already sent
set_auto_coalesced(enabled) ==
  /\ AUTO_OFFER' = Bool(enabled)
  /\ UNCHANGED <<WAIT_TIME, OFFER, MODE, SHOW_OFFER>>
  /\ Commit
  /\ IF _payload' # _payload THEN notify
     ELSE UNCHANGED <<queue, listeners, broadcasts>>
  /\ reply' = [op |-> "set_auto", value |-> enabled,
               resp |-> [status |-> 200, ok |-> TRUE, auto_offer |-> AUTO_OFFER']]
  /\ UNCHANGED <<stream, faulty>>

set_auto(enabled) ==
  /\ AUTO_OFFER' = Bool(enabled)
  /\ UNCHANGED <<WAIT_TIME, OFFER, MODE, SHOW_OFFER>>
  /\ Commit
  /\ notify
  /\ reply' = [op |-> "set_auto", value |-> enabled,
              resp |-> [status |-> 200, ok |-> TRUE, auto_offer |-> AUTO_OFFER']]
  /\ UNCHANGED <<stream, faulty>>

\* ------------------------------------------------------ stream generator
Suspended == {"yield_snapshot", "yield_retry", "yield_heartbeat0", "wait",
              "yield_data", "yield_heartbeat"}

Heartbeats(s) ==
  Cardinality({ i \in 4..Len(emitted[s]) : emitted[s][i] = HEARTBEAT })

Emit(s, item) == emitted' = [emitted EXCEPT ![s] = Append(@, item)]

\* the snapshot is also put on the session's own queue
Start_dup(s) ==
  /\ pc[s] = "created"
  /\ queue' = [queue EXCEPT ![s] = <<_payload>>]
  /\ listeners' = listeners \cup {s}
  /\ Emit(s, _payload)
  /\ pc' = [pc EXCEPT ![s] = "yield_snapshot"]
  /\ regAt' = [regAt EXCEPT ![s] = Len(commits)]
  /\ reply' = NoReply
  /\ UNCHANGED <<state, timer, faulty, commits, broadcasts>>

\* the snapshot is the state the process started with
Start_stale(s) ==
  /\ pc[s] = "created"
  /\ queue' = [queue EXCEPT ![s] = <<>>]
  /\ listeners' = listeners \cup {s}
  /\ Emit(s, Format(DEFAULT_WAIT_TIME, DEFAULT_OFFER, DEFAULT_MODE,
                    DEFAULT_SHOW_OFFER))
  /\ pc' = [pc EXCEPT ![s] = "yield_snapshot"]
  /\ regAt' = [regAt EXCEPT ![s] = Len(commits)]
  /\ reply' = NoReply
  /\ UNCHANGED <<state, timer, faulty, commits, broadcasts>>

\* lines 277-282: create the queue, register it, yield the snapshot
Start(s) ==
  /\ pc[s] = "created"
  /\ queue' = [queue EXCEPT ![s] = <<>>]
  /\ listeners' = listeners \cup {s}
  /\ Emit(s, _payload)
  /\ pc' = [pc EXCEPT ![s] = "yield_snapshot"]
  /\ regAt' = [regAt EXCEPT ![s] = Len(commits)]
  /\ reply' = NoReply
  /\ UNCHANGED <<state, timer, faulty, commits, broadcasts>>

\* line 284
YieldRetry(s) ==
  /\ pc[s] = "yield_snapshot"
  /\ Emit(s, RETRY)
  /\ pc' = [pc EXCEPT ![s] = "yield_retry"]
  /\ reply' = NoReply
  /\ UNCHANGED <<state, listeners, queue, timer, faulty, commits, broadcasts, regAt>>

\* line 286
YieldHeartbeat0(s) ==
  /\ pc[s] = "yield_retry"
  /\ Emit(s, HEARTBEAT)
  /\ pc' = [pc EXCEPT ![s] = "yield_heartbeat0"]
  /\ reply' = NoReply
  /\ UNCHANGED <<state, listeners, queue, timer, faulty, commits, broadcasts, regAt>>

\* a finished generator is resumed as well
Wait_reopen(s) ==
  /\ pc[s] \in {"yield_heartbeat0", "yield_data", "yield_heartbeat", "closed"}
  /\ pc' = [pc EXCEPT ![s] = "wait"]
  /\ timer' = [timer EXCEPT ![s] = 0]
  /\ reply' = NoReply
  /\ UNCHANGED <<state, listeners, queue, emitted, faulty, commits, broadcasts, regAt>>

\* lines 288-291: the generator is resumed and enters wait_for(q.get(), 20)
Wait(s) ==
  /\ pc[s] \in {"yield_heartbeat0", "yield_data", "yield_heartbeat"}
  /\ pc' = [pc EXCEPT ![s] = "wait"]
  /\ timer' = [timer EXCEPT ![s] = 0]
  /\ reply' = NoReply
  /\ UNCHANGED <<state, listeners, queue, emitted, faulty, commits, broadcasts, regAt>>

\* lines 291-292: q.get() returns the oldest item, which is yielded
Get(s) ==
  /\ pc[s] = "wait"
  /\ queue[s] # <<>>
  /\ Emit(s, Head(queue[s]))
  /\ queue' = [queue EXCEPT ![s] = Tail(@)]
  /\ pc' = [pc EXCEPT ![s] = "yield_data"]
  /\ timer' = [timer EXCEPT ![s] = 0]
  /\ reply' = NoReply
  /\ UNCHANGED <<state, listeners, faulty, commits, broadcasts, regAt>>

\* q.get() has nothing to return: the wait_for of line 291 is pending
Blocked(s) == pc[s] = "wait" /\ queue[s] = <<>>

\* time passes for the pending wait_for calls, up to the earliest of their
\* deadlines (timeout=20.0, line 291); a deadline reached must fire first
Tick ==
  /\ \E s \in Sessions : Blocked(s)
  /\ \A s \in Sessions : Blocked(s) => timer[s] < HEARTBEAT_TIMEOUT
  /\ LET d == CHOOSE d \in 1..HEARTBEAT_TIMEOUT :
                /\ \A s \in Sessions : Blocked(s) => timer[s] + d <= HEARTBEAT_TIMEOUT
                /\ \E s \in Sessions : Blocked(s) /\ timer[s] + d = HEARTBEAT_TIMEOUT
     IN timer' = [s \in Sessions |-> IF Blocked(s) THEN timer[s] + d ELSE timer[s]]
  /\ reply' = NoReply
  /\ UNCHANGED <<state, listeners, queue, pc, emitted, faulty, commits, broadcasts, regAt>>

\* the heartbeat is yielded and the generator returns
Timeout_close(s) ==
  /\ pc[s] = "wait"
  /\ timer[s] = HEARTBEAT_TIMEOUT
  /\ Heartbeats(s) < MaxHeartbeats
  /\ Emit(s, HEARTBEAT)
  /\ pc' = [pc EXCEPT ![s] = "closed"]
  /\ timer' = [timer EXCEPT ![s] = 0]
  /\ listeners' = Discard(listeners, s)
  /\ reply' = NoReply
  /\ UNCHANGED <<state, queue, faulty, commits, broadcasts, regAt>>

\* the timeout takes the oldest queued item with it
Timeout_drop(s) ==
  /\ pc[s] = "wait"
  /\ timer[s] = HEARTBEAT_TIMEOUT
  /\ Heartbeats(s) < MaxHeartbeats
  /\ Emit(s, HEARTBEAT)
  /\ queue' = [queue EXCEPT ![s] = IF @ = <<>> THEN @ ELSE Tail(@)]
  /\ pc' = [pc EXCEPT ![s] = "yield_heartbeat"]
  /\ timer' = [timer EXCEPT ![s] = 0]
  /\ reply' = NoReply
  /\ UNCHANGED <<state, listeners, faulty, commits, broadcasts, regAt>>

\* lines 293-295: wait_for raises TimeoutError, a heartbeat is yielded.  An
\* item put at the very deadline stays in the queue for the next q.get()
Timeout(s) ==
  /\ pc[s] = "wait"
  /\ timer[s] = HEARTBEAT_TIMEOUT
  /\ Heartbeats(s) < MaxHeartbeats
  /\ Emit(s, HEARTBEAT)
  /\ pc' = [pc EXCEPT ![s] = "yield_heartbeat"]
  /\ timer' = [timer EXCEPT ![s] = 0]
  /\ reply' = NoReply
  /\ UNCHANGED <<state, listeners, queue, faulty, commits, broadcasts, regAt>>

\* a finally clause that does not unregister
Finally_leak(ls, s) == ls

\* the finally clause, line 300
Finally(ls, s) == Discard(ls, s)

\* the except clause, line 298, followed by the finally clause
ExceptCancelled(ls, s) == Finally(Discard(ls, s), s)

\* lines 297-300: CancelledError is raised at the generator's suspension
Cancel(s) ==
  /\ pc[s] \in Suspended
  /\ listeners' = ExceptCancelled(listeners, s)
  /\ pc' = [pc EXCEPT ![s] = "closed"]
  /\ reply' = NoReply
  /\ timer' = [timer EXCEPT ![s] = 0]
  /\ UNCHANGED <<state, queue, emitted, faulty, commits, broadcasts, regAt>>

\* lines 299-300: the generator is closed (GeneratorExit at a yield) or
\* another exception is raised at its suspension; only finally runs
Throw(s) ==
  /\ pc[s] \in Suspended
  /\ listeners' = Finally(listeners, s)
  /\ pc' = [pc EXCEPT ![s] = "closed"]
  /\ reply' = NoReply
  /\ timer' = [timer EXCEPT ![s] = 0]
  /\ UNCHANGED <<state, queue, emitted, faulty, commits, broadcasts, regAt>>

\* ------------------------------------------------------------ properties
FormatState(st) == Format(st.wait, st.offer, st.mode, st.show)

\* the payload of the state right after the i-th successful mutation
CommitPayload(i) == FormatState(commits[i].state)

\* the payload of the state after i successful mutations, i = 0 at start
PayloadAfter(i) == IF i = 0 THEN FormatState(InitialState) ELSE CommitPayload(i)

IsData(item) ==
  Len(item) >= 6 /\ SubSeq(item, 1, 6) = <<"d","a","t","a",":"," ">>

\* what session s has emitted after its three opening items
AfterOpening(s) == SubSeq(emitted[s], 4, Len(emitted[s]))

\* the payloads pushed to session s so far: those it emitted, then its queue
Received(s) == SelectSeq(AfterOpening(s), IsData) \o queue[s]

\* the mutations, in commit order, whose broadcast found s registered
RECURSIVE RegisteredFor(_, _)
RegisteredFor(s, n) ==
  IF n = 0 THEN <<>>
  ELSE IF s \in commits[n].regs THEN Append(RegisteredFor(s, n - 1), n)
       ELSE RegisteredFor(s, n - 1)

Streaming == {"wait", "yield_data", "yield_heartbeat"}
Opening == {"yield_snapshot", "yield_retry", "yield_heartbeat0"}

\* C1: every listener receives (has enqueued, and emits) the broadcast
\* payloads in commit order: the k-th payload pushed to session s is the
\* payload of the k-th committed mutation that found s registered, so no two
\* listeners see two payloads in different orders.
C1_CommitOrder ==
  \A s \in Sessions :
    LET idx == RegisteredFor(s, Len(commits)) IN
      /\ Len(Received(s)) <= Len(idx)
      /\ \A k \in 1..Len(Received(s)) : Received(s)[k] = CommitPayload(idx[k])

\* two different payloads were pushed to two listeners, one has emitted both
C1_Witness ==
  /\ Len(commits) = 2
  /\ CommitPayload(1) # CommitPayload(2)
  /\ commits[1].regs = {1, 2}
  /\ commits[2].regs = {1, 2}
  /\ SelectSeq(AfterOpening(1), IsData) = <<CommitPayload(1), CommitPayload(2)>>
  /\ Len(Received(2)) = 2

\* C2: a broadcast of payload p appends exactly one copy of p to the queue
\* of each listener registered when it is invoked and leaves the queue of
\* every other session as it was.
C2_ExactlyOneCopy ==
  [][Len(broadcasts') = Len(broadcasts) + 1 =>
       \A s \in Sessions :
         queue'[s] = IF s \in listeners
                     THEN Append(queue[s], broadcasts'[Len(broadcasts')])
                     ELSE queue[s]]_vars

\* session 2 registered, left before the last broadcast and got nothing of
\* it, while session 1 was registered for it and holds its payload
C2_Witness ==
  /\ Len(commits) = 2
  /\ commits[1].regs = {1, 2}
  /\ commits[2].regs = {1}
  /\ Received(1) = <<CommitPayload(1), CommitPayload(2)>>
  /\ Received(2) = <<CommitPayload(1)>>
  /\ pc[2] = "closed"

\* C3: no listener leak: the registry holds no listener of a closed session.
C3_NoListenerLeak ==
  \A s \in Sessions : pc[s] = "closed" => s \notin listeners

\* a session that had registered is closed while another is still registered
C3_Witness ==
  \E s, t \in Sessions :
    /\ pc[s] = "closed"
    /\ emitted[s] # <<>>
    /\ t \in listeners

\* C4: a session opens with the payload of the state current when it
\* registered, then "retry: 3000", then ": heartbeat"; nothing pushed to its
\* listener is taken from the queue before these three are out.
C4_Opening ==
  \A s \in Sessions :
    LET e == emitted[s] IN
      /\ Len(e) >= 1 => e[1] = PayloadAfter(regAt[s])
      /\ Len(e) >= 2 => e[2] = RETRY
      /\ Len(e) >= 3 => e[3] = HEARTBEAT
      /\ pc[s] \in Opening =>
           /\ Len(e) <= 3
           /\ Len(queue[s]) = Len(RegisteredFor(s, Len(commits)))
      /\ pc[s] \in Streaming => Len(e) >= 3

\* a session has emitted its three opening items and no mutation occurred
C4_Witness ==
  \E s \in Sessions :
    /\ commits = <<>>
    /\ Len(emitted[s]) = 3
    /\ pc[s] = "wait"

\* a session registered after a mutation, a second mutation was pushed to it
\* during the opening, and it has emitted the opening and then the payload
C4_WitnessPushed ==
  \E s \in Sessions :
    /\ regAt[s] = 1
    /\ Len(commits) = 2
    /\ CommitPayload(1) # FormatState(InitialState)
    /\ CommitPayload(2) # CommitPayload(1)
    /\ emitted[s] = <<CommitPayload(1), RETRY, HEARTBEAT, CommitPayload(2)>>

\* C5: a session that registers after i mutations opens with the payload of
\* the state after the i-th, and the payloads pushed to it are those of the
\* mutations i+1, i+2, ... in order, none missing while it is registered and
\* the i-th never among them.
C5_NoMissedMutation ==
  \A s \in Sessions :
    emitted[s] # <<>> =>
      LET r == Received(s) IN
        /\ emitted[s][1] = PayloadAfter(regAt[s])
        /\ regAt[s] + Len(r) <= Len(commits)
        /\ \A k \in 1..Len(r) : r[k] = CommitPayload(regAt[s] + k)
        /\ s \in listeners => regAt[s] + Len(r) = Len(commits)

\* a session registered between two mutations of different payloads and has
\* emitted the first as its snapshot and the second from its queue
C5_Witness ==
  \E s \in Sessions :
    /\ regAt[s] = 1
    /\ Len(commits) = 2
    /\ CommitPayload(1) # FormatState(InitialState)
    /\ CommitPayload(2) # CommitPayload(1)
    /\ emitted[s][1] = CommitPayload(1)
    /\ SelectSeq(AfterOpening(s), IsData) = <<CommitPayload(2)>>
    /\ queue[s] = <<>>

Successful(r) == r.op # "none" /\ r.resp.status = 200 /\ r.resp.ok

\* C6: a step that serves a successful mutation makes exactly one broadcast,
\* of the payload of the state it leaves, also when that payload equals the
\* previous one; no other step broadcasts.
C6_OneBroadcastPerMutation ==
  [][/\ Successful(reply') => broadcasts' = Append(broadcasts, _payload')
     /\ broadcasts' # broadcasts => Successful(reply')]_vars

\* set_auto left the payload as it was and a listener still got it again
C6_Witness ==
  \E s \in Sessions :
    /\ reply.op = "set_auto"
    /\ Len(broadcasts) = 2
    /\ broadcasts[1] = broadcasts[2]
    /\ Received(s) = <<broadcasts[1], broadcasts[2]>>

\* C7: when put raises for a listener during a broadcast, every other
\* listener registered for the broadcast gets the payload exactly once and
\* stays registered, the handler returns, and the failing listener is removed.
C7_FailureIsolated ==
  [][Len(broadcasts') = Len(broadcasts) + 1 =>
       /\ Successful(reply')
       /\ \A s \in listeners :
            IF s \in faulty
            THEN s \notin listeners' /\ queue'[s] = queue[s]
            ELSE /\ s \in listeners'
                 /\ queue'[s] = Append(queue[s], broadcasts'[Len(broadcasts')])]_vars

\* a broadcast found a faulty and a sound listener: the faulty one is out
\* of the registry with its session still open, the sound one has the payload
C7_Witness ==
  \E s, t \in Sessions :
    /\ s \in faulty
    /\ t \notin faulty
    /\ commits # <<>>
    /\ commits[Len(commits)].regs = {s, t}
    /\ listeners = {t}
    /\ pc[s] # "closed"
    /\ queue[s] = <<>>
    /\ Received(t) # <<>>
    /\ Received(t)[Len(Received(t))] = broadcasts[Len(broadcasts)]

\* C8: when the 20 time units of a wait have elapsed with nothing pushed,
\* what the session emits is a heartbeat comment; it stays Streaming, its
\* registration and queue are untouched, and it then waits again.  No wait
\* lasts longer than the timeout.
C8_HeartbeatOnTimeout ==
  /\ [](\A s \in Sessions : timer[s] <= HEARTBEAT_TIMEOUT)
  /\ [][\A s \in Sessions :
          /\ (Blocked(s) /\ timer[s] = HEARTBEAT_TIMEOUT
                /\ emitted'[s] # emitted[s]) =>
                /\ emitted'[s] = Append(emitted[s], HEARTBEAT)
                /\ ~IsData(HEARTBEAT)
                /\ pc'[s] \in Streaming
                /\ (s \in listeners') = (s \in listeners)
                /\ queue'[s] = queue[s]
          /\ (pc[s] = "yield_heartbeat" /\ pc'[s] \notin {"yield_heartbeat", "closed"}) =>
                /\ pc'[s] = "wait"
                /\ emitted'[s] = emitted[s]
                /\ (s \in listeners') = (s \in listeners)]_vars

\* a session timed out, emitted the heartbeat, is registered and waits again
C8_Witness ==
  \E s \in Sessions :
    /\ pc[s] = "wait"
    /\ Len(emitted[s]) = 4
    /\ emitted[s][4] = HEARTBEAT
    /\ s \in listeners

CommittedPayloads == { PayloadAfter(i) : i \in 0..Len(commits) }

\* C9: every data payload emitted or queued is the payload of the initial
\* state or of the state right after a completed mutation, and the i-th
\* broadcast carries the payload of the state right after the i-th mutation.
C9_NoTornState ==
  /\ \A s \in Sessions :
       /\ \A i \in DOMAIN emitted[s] :
            IsData(emitted[s][i]) => emitted[s][i] \in CommittedPayloads
       /\ \A i \in DOMAIN queue[s] : queue[s][i] \in CommittedPayloads
  /\ Len(broadcasts) = Len(commits)
  /\ \A i \in DOMAIN broadcasts : broadcasts[i] = CommitPayload(i)

\* set_offer emptied the offer and hid it in one mutation, and a session
\* has emitted the payload of that state
C9_Witness ==
  \E s \in Sessions :
    /\ Len(commits) >= 1
    /\ commits[1].state.offer = <<>>
    /\ commits[1].state.show = FALSE
    /\ InitialState.show = TRUE
    /\ Len(emitted[s]) >= 4
    /\ emitted[s][4] = CommitPayload(1)

InvalidRequest(r) ==
  \/ r.op = "set_mode" /\ Lower(Strip(OrEmpty(r.value))) \notin VALID_MODES
  \/ r.op = "set_wait" /\ ~IsIntStr(r.value)

ReportsFailure(r) == r.resp.status # 200 \/ ~r.resp.ok

\* C10: a set-mode request whose normalized value is not time, logo or dual,
\* or a set-wait request whose value is no integer, reports failure, leaves
\* the five state fields unchanged and broadcasts nothing.
C10_RejectedRequest ==
  [][InvalidRequest(reply') =>
       /\ ReportsFailure(reply')
       /\ UNCHANGED <<WAIT_TIME, OFFER, MODE, SHOW_OFFER, AUTO_OFFER>>
       /\ UNCHANGED <<broadcasts, queue, listeners>>]_vars

\* an invalid mode was refused after two mutations had changed the state
\* and been pushed to the registered listener
C10_Witness ==
  /\ reply.op = "set_mode"
  /\ InvalidRequest(reply)
  /\ State # InitialState
  /\ Len(queue[1]) = 2
  /\ 1 \in listeners

\* an invalid wait value was refused after a mutation had changed the state
C10_WitnessWait ==
  /\ reply.op = "set_wait"
  /\ InvalidRequest(reply)
  /\ State # InitialState
  /\ queue[1] # <<>>

\* the integer a set-wait form value denotes, digit by digit
RECURSIVE Denoted(_)
Denoted(s) ==
  IF s = <<>> THEN 0
  ELSE IF Head(s) = "-" THEN 0 - Denoted(Tail(s))
  ELSE IF Head(s) = "+" THEN Denoted(Tail(s))
  ELSE 10 * Denoted(SubSeq(s, 1, Len(s) - 1))
         + (CHOOSE d \in 0..9 : Digits[d + 1] = s[Len(s)])

Clamped(n) == IF n < 0 THEN 0 ELSE IF n > 10 THEN 10 ELSE n

\* C11: set wait with the integer n stores max(0, min(10, n)) in waitMinutes
\* and returns the stored value.
C11_WaitClamped ==
  (reply.op = "set_wait" /\ reply.resp.status = 200) =>
     /\ WAIT_TIME = Clamped(Denoted(reply.value))
     /\ reply.resp.wait = Clamped(Denoted(reply.value))

\* set wait was served with -2 and with 15: both ends of the clamp
C11_Witness ==
  /\ reply.op = "set_wait"
  /\ reply.value = <<"-","2">>
  /\ WAIT_TIME = 0
  /\ Len(commits) = 2
  /\ commits[1].state.wait = 10

\* C12: from the defaults, waitMinutes is always an integer of 0..10 and
\* displayMode always one of time, logo, dual.
C12_StateDomain ==
  /\ WAIT_TIME \in 0..10
  /\ MODE \in { <<"t","i","m","e">>, <<"l","o","g","o">>, <<"d","u","a","l">> }

\* wait was set from 15, the mode changed, and an invalid mode was refused
C12_Witness ==
  /\ WAIT_TIME = 10
  /\ MODE = <<"d","u","a","l">>
  /\ reply.op = "set_mode"
  /\ reply.value = <<"b","o","g","u","s">>

\* t is s without its leading and trailing whitespace
IsTrimOf(t, s) ==
  \E i \in 1..(Len(s) + 1) : \E j \in 0..Len(s) :
    /\ t = SubSeq(s, i, j)
    /\ \A k \in 1..(i - 1) : s[k] \in Whitespace
    /\ \A k \in (j + 1)..Len(s) : s[k] \in Whitespace
    /\ t # <<>> => (t[1] \notin Whitespace /\ t[Len(t)] \notin Whitespace)

\* the text of a form value: an absent field is the empty string
TextOf(v) == IF v = None THEN <<>> ELSE v

\* C13: set offer with s stores trim(s) in offerText and returns it; when
\* trim(s) is empty showOffer is false afterwards.
C13_OfferTrimmed ==
  reply.op = "set_offer" =>
     /\ IsTrimOf(OFFER, TextOf(reply.value))
     /\ reply.resp.offer = OFFER
     /\ reply.resp.show = SHOW_OFFER
     /\ OFFER = <<>> => ~SHOW_OFFER

\* an offer of one blank was set while the offer was shown: it is stored
\* empty and hidden
C13_Witness ==
  /\ reply.op = "set_offer"
  /\ reply.value = <<" ">>
  /\ OFFER = <<>>
  /\ ~SHOW_OFFER
  /\ Len(commits) = 2
  /\ commits[1].state.show
  /\ commits[1].state.offer = <<"a">>

\* the form values that denote false: an absent or empty field, and the
\* usual spellings of false ("0" is the one line 62 reads as false)
DenotesFalse(v) ==
  v \in { None, <<>>, <<"0">>, <<"f","a","l","s","e">>, <<"o","f","f">>,
          <<"n","o">> }

\* C14: set offer visibility stores in showOffer the boolean its input
\* denotes, true for an enabling input and false for a disabling one,
\* whatever offerText is.
C14_VisibilityDenoted ==
  reply.op = "offer_visibility" =>
     /\ SHOW_OFFER = ~DenotesFalse(reply.value)
     /\ reply.resp.show = SHOW_OFFER

\* C14, the part the handler keeps: the stored flag does not depend on
\* offerText, so an enabling input shows an offer that is empty.
C14_Passthrough ==
  reply.op = "offer_visibility" =>
     /\ reply.value \in { <<"1">>, <<"o","n">> } => SHOW_OFFER
     /\ reply.value \in { None, <<>> } => ~SHOW_OFFER
     /\ reply.resp.show = SHOW_OFFER

\* the offer was emptied, then shown again by an enabling input
C14_PassthroughWitness ==
  /\ reply.op = "offer_visibility"
  /\ reply.value = <<"1">>
  /\ OFFER = <<>>
  /\ SHOW_OFFER
  /\ Len(commits) = 2
  /\ ~commits[1].state.show

\* the lower-case form of t, letter by letter
Lowered(t) ==
  [i \in 1..Len(t) |->
     IF \E k \in 1..26 : UpperCase[k] = t[i]
     THEN LowerCase[CHOOSE k \in 1..26 : UpperCase[k] = t[i]]
     ELSE t[i]]

\* v, trimmed and lower-cased, is n
NormalizesTo(v, n) == \E i \in 1..(Len(v) + 1) : \E j \in 0..Len(v) :
  IsTrimOf(SubSeq(v, i, j), v) /\ n = Lowered(SubSeq(v, i, j))

\* C15: set mode succeeds exactly when its value, trimmed and lower-cased,
\* is time, logo or dual, and then displayMode is that normalized value and
\* is returned; "TIME " stores "time".
C15_ModeNormalized ==
  reply.op = "set_mode" =>
     /\ reply.resp.ok =
          (\E n \in { <<"t","i","m","e">>, <<"l","o","g","o">>,
                       <<"d","u","a","l">> } : NormalizesTo(reply.value, n))
     /\ reply.resp.ok =>
          /\ NormalizesTo(reply.value, MODE)
          /\ reply.resp.mode = MODE
     /\ reply.value = <<"T","I","M","E"," ">> =>
          reply.resp.ok /\ MODE = <<"t","i","m","e">>

\* "TIME " was accepted and stored as "time" while the mode was another
C15_Witness ==
  /\ reply.op = "set_mode"
  /\ reply.value = <<"T","I","M","E"," ">>
  /\ reply.resp.ok
  /\ MODE = <<"t","i","m","e">>
  /\ Len(commits) = 2
  /\ commits[1].state.mode = <<"d","u","a","l">>

\* the phases of a session, in order: Created, Registered, Streaming, Closed
Rank(p) ==
  IF p = "created" THEN 0
  ELSE IF p \in Opening THEN 1
  ELSE IF p \in Streaming THEN 2
  ELSE 3

\* C16: a session moves only forward through Created, Registered, Streaming,
\* Closed; once closed it stays closed, emits nothing more, is not
\* registered again and does not return to Streaming.
C16_ForwardOnly ==
  [][\A s \in Sessions :
       /\ Rank(pc'[s]) >= Rank(pc[s])
       /\ pc[s] = "closed" =>
            /\ pc'[s] = "closed"
            /\ emitted'[s] = emitted[s]
            /\ s \notin listeners
            /\ s \notin listeners']_vars

\* a session streamed, was closed, and a mutation was broadcast afterwards
C16_Witness ==
  \E s \in Sessions :
    /\ pc[s] = "closed"
    /\ Len(emitted[s]) > 3
    /\ Len(commits) = 2
    /\ s \in commits[1].regs
    /\ s \notin commits[2].regs
    /\ s \notin listeners
    /\ queue[s] # <<>>

\* the session s ends in this step
Closes(s) == pc[s] # "closed" /\ pc'[s] = "closed"

\* C17: unregistering is idempotent: when a session ends, by cancellation
\* (two unregistrations) or otherwise (one), the registry loses that
\* session's listener and nothing else, and is left as it was when the
\* listener was already absent; the cancellation path leaves the registry
\* a single unregistration leaves.
C17_UnregisterIdempotent ==
  /\ [](\A s \in Sessions :
          /\ ExceptCancelled(listeners, s) = Finally(listeners, s)
          /\ s \notin listeners => Finally(listeners, s) = listeners)
  /\ [][\A s \in Sessions : Closes(s) =>
          /\ listeners' = listeners \ {s}
          /\ s \notin listeners => listeners' = listeners]_vars

\* a listener whose queue raised was dropped by a broadcast, and its session
\* ended afterwards while another listener stayed registered
C17_Witness ==
  \E s, t \in Sessions :
    /\ s \in faulty
    /\ pc[s] = "closed"
    /\ commits # <<>>
    /\ {s, t} \subseteq commits[Len(commits)].regs
    /\ s # t
    /\ listeners = {t}

\* C18: each setter changes only its own fields: set wait only waitMinutes,
\* set mode only displayMode, set auto-offer only autoOfferEnabled, set
\* offer visibility only showOffer; set offer changes offerText, and
\* showOffer only when the trimmed text is empty (a non-empty offer leaves
\* showOffer as it was).  With every delivery succeeding, no setter changes
\* the registry.
C18_Frame ==
  [][/\ reply'.op = "set_wait" =>
          UNCHANGED <<OFFER, MODE, SHOW_OFFER, AUTO_OFFER>>
     /\ reply'.op = "set_mode" =>
          UNCHANGED <<WAIT_TIME, OFFER, SHOW_OFFER, AUTO_OFFER>>
     /\ reply'.op = "set_auto" =>
          UNCHANGED <<WAIT_TIME, OFFER, MODE, SHOW_OFFER>>
     /\ reply'.op = "offer_visibility" =>
          UNCHANGED <<WAIT_TIME, OFFER, MODE, AUTO_OFFER>>
     /\ reply'.op = "set_offer" =>
          /\ UNCHANGED <<WAIT_TIME, MODE, AUTO_OFFER>>
          /\ IF IsTrimOf(<<>>, TextOf(reply'.value))
             THEN ~SHOW_OFFER'
             ELSE SHOW_OFFER' = SHOW_OFFER
     /\ (reply'.op # "none" /\ faulty = {}) => listeners' = listeners]_vars

\* the offer was hidden, then a non-empty offer was set: it stays hidden
C18_Witness ==
  /\ reply.op = "set_offer"
  /\ reply.value = <<" ","a"," ">>
  /\ OFFER = <<"a">>
  /\ ~SHOW_OFFER
  /\ Len(commits) = 2
  /\ commits[1].state.offer = DEFAULT_OFFER
  /\ ~commits[1].state.show
  /\ listeners = {1}

\* what this step enqueues to session s
Enqueued(s) ==
  IF Len(broadcasts') = Len(broadcasts) + 1 /\ s \in listeners
  THEN <<broadcasts'[Len(broadcasts')]>>
  ELSE <<>>

\* C19: while a session is Streaming, every payload enqueued to it is
\* emitted exactly once, unchanged and in enqueue order: what it has emitted
\* followed by what it still holds grows only by what is enqueued, a data
\* item emitted is the oldest queued one, and a heartbeat emitted on timeout
\* leaves the queue as it was.
C19_FifoExactlyOnce ==
  [][\A s \in Sessions : pc[s] \in Streaming =>
       /\ Received(s)' = Received(s) \o Enqueued(s)
       /\ emitted'[s] # emitted[s] =>
            /\ Len(emitted'[s]) = Len(emitted[s]) + 1
            /\ SubSeq(emitted'[s], 1, Len(emitted[s])) = emitted[s]
            /\ LET item == emitted'[s][Len(emitted'[s])] IN
                 \/ /\ queue[s] # <<>>
                    /\ item = Head(queue[s])
                    /\ IsData(item)
                    /\ queue'[s] = Tail(queue[s])
                 \/ /\ item = HEARTBEAT
                    /\ queue'[s] = queue[s]]_vars

\* a session emitted a payload, a heartbeat on timeout and then a second,
\* different payload, in the order of the broadcasts
C19_Witness ==
  \E s \in Sessions :
    /\ Len(broadcasts) = 2
    /\ broadcasts[1] # broadcasts[2]
    /\ AfterOpening(s) = <<broadcasts[1], HEARTBEAT, broadcasts[2]>>
    /\ queue[s] = <<>>

\* a heartbeat was emitted on timeout while two payloads were queued
C19_WitnessQueued ==
  \E s \in Sessions :
    /\ pc[s] = "yield_heartbeat"
    /\ Len(broadcasts) = 2
    /\ broadcasts[1] # broadcasts[2]
    /\ AfterOpening(s) = <<HEARTBEAT>>
    /\ queue[s] = <<broadcasts[1], broadcasts[2]>>

\* the last data payload among items
LastData(items) ==
  LET d == SelectSeq(items, IsData) IN d[Len(d)]

\* C20: convergence at quiescence: between control requests, a Streaming
\* session whose queue is empty has emitted, as its last data payload, the
\* formatted payload of the current state.
C20_Convergence ==
  \A s \in Sessions :
    (pc[s] \in Streaming /\ queue[s] = <<>>) =>
       /\ SelectSeq(emitted[s], IsData) # <<>>
       /\ LastData(emitted[s]) = _payload

\* a session that started on the initial state has emitted two updates and
\* is level with the current state, which differs from its snapshot
C20_Witness ==
  \E s \in Sessions :
    /\ pc[s] \in Streaming
    /\ queue[s] = <<>>
    /\ Len(commits) = 2
    /\ regAt[s] = 0
    /\ Len(SelectSeq(AfterOpening(s), IsData)) = 2
    /\ LastData(emitted[s]) = CommitPayload(2)
    /\ CommitPayload(2) # emitted[s][1]
    /\ CommitPayload(2) # CommitPayload(1)

\* -------------------------------------------------------- specification
InitCommon ==
  /\ WAIT_TIME = DEFAULT_WAIT_TIME
  /\ OFFER = DEFAULT_OFFER
  /\ MODE = DEFAULT_MODE
  /\ SHOW_OFFER = DEFAULT_SHOW_OFFER
  /\ AUTO_OFFER = FALSE
  /\ listeners = {}
  /\ queue = [s \in Sessions |-> <<>>]
  /\ pc = [s \in Sessions |-> "created"]
  /\ timer = [s \in Sessions |-> 0]
  /\ emitted = [s \in Sessions |-> <<>>]
  /\ reply = NoReply
  /\ commits = <<>>
  /\ broadcasts = <<>>
  /\ regAt = [s \in Sessions |-> 0]

Init == InitCommon /\ faulty = {}

\* some queues raise on put (an environment fault, e.g. MemoryError)
InitFault == InitCommon /\ faulty \in (SUBSET Sessions) \ {{}}

\* session 1 is registered and waiting, the others have not connected
InitControl ==
  /\ WAIT_TIME = DEFAULT_WAIT_TIME
  /\ OFFER = DEFAULT_OFFER
  /\ MODE = DEFAULT_MODE
  /\ SHOW_OFFER = DEFAULT_SHOW_OFFER
  /\ AUTO_OFFER = FALSE
  /\ listeners = {1}
  /\ queue = [s \in Sessions |-> <<>>]
  /\ pc = [s \in Sessions |-> IF s = 1 THEN "wait" ELSE "created"]
  /\ timer = [s \in Sessions |-> 0]
  /\ emitted = [s \in Sessions |->
                  IF s = 1 THEN <<Format(DEFAULT_WAIT_TIME, DEFAULT_OFFER,
                                         DEFAULT_MODE, DEFAULT_SHOW_OFFER),
                                  RETRY, HEARTBEAT>>
                  ELSE <<>>]
  /\ reply = NoReply
  /\ commits = <<>>
  /\ broadcasts = <<>>
  /\ regAt = [s \in Sessions |-> 0]
  /\ faulty = {}

Next ==
  \/ \E v \in WaitForms : set_wait(v)
  \/ \E v \in OfferForms : set_offer(v)
  \/ \E v \in VisibilityForms : offer_visibility(v)
  \/ \E v \in ModeForms : set_mode(v)
  \/ \E v \in AutoForms : set_auto(v)
  \/ \E s \in Sessions : Start(s)
  \/ \E s \in Sessions : YieldRetry(s)
  \/ \E s \in Sessions : YieldHeartbeat0(s)
  \/ \E s \in Sessions : Wait(s)
  \/ \E s \in Sessions : Get(s)
  \/ Tick
  \/ \E s \in Sessions : Timeout(s)
  \/ \E s \in Sessions : Cancel(s)
  \/ \E s \in Sessions : Throw(s)

NextControl ==
  \/ \E v \in ControlWaitForms : set_wait(v)
  \/ \E v \in ControlOfferForms : set_offer(v)
  \/ \E v \in ControlEnabledForms : offer_visibility(v)
  \/ \E v \in ControlModeForms : set_mode(v)
  \/ \E v \in ControlEnabledForms : set_auto(v)

\* control requests interleaved with stream sessions
Spec == Init /\ [][Next]_vars

\* the same, with queues that raise on put
SpecFault == InitFault /\ [][Next]_vars

\* control requests alone, valid and invalid, with one listener registered
SpecControl == InitControl /\ [][NextControl]_vars

====
